---- MODULE Spec2Model ----
(***************************************************************************)
(* Model of the tool-calling agent of mlflow_demo/agent/agent.py:          *)
(* ToolCallingAgent.call_and_run_tools and the entry points around it      *)
(* (predict_stream, predict_stream_local), with the argument parser        *)
(* _safe_parse_tool_arguments and the tool dispatch of execute_tool.       *)
(*                                                                         *)
(* The hosted chat-completions endpoint and the registered tools are the   *)
(* environment: every model response and every tool outcome is a           *)
(* nondeterministic choice.                                                *)
(***************************************************************************)
EXTENDS Integers, Sequences, FiniteSets, TLC

(* ---------------- bounds of the model ---------------- *)

\* largest iteration cap (max_iter) a turn is run with
MaxCap == 4

\* number of turns run one after the other on the agent
MaxTurns == 2

(* ---------------- values ---------------- *)

MaxIterText == "Max iterations reached. Stopping."

SystemText == "system prompt"

Questions == {"q"}

\* texts the model answers with
ModelTexts == {"The Chiefs pass 60% of the time."}

\* tools registered in _tools_dict, and names the model may ask for
RegisteredTools == {"lookup"}

RequestedNames == {"lookup", "ghost"}

\* values a tool's exec_fn returns: a value, an error string, or None
NoneValue == "<None>"

ToolErrorText == "ERROR: unknown team code"

ToolReturns == {"KC passes 60%", ToolErrorText, NoneValue}

\* Python's str() on a tool result
Str(v) == IF v = NoneValue THEN "None" ELSE v

(* ---------------- messages ---------------- *)

Msg(type, role, call_id, name, arguments, text) ==
    [type |-> type, role |-> role, call_id |-> call_id, name |-> name,
     arguments |-> arguments, text |-> text]

SystemMsg == Msg("chat", "system", 0, "", <<>>, SystemText)

UserMsg(q) == Msg("chat", "user", 0, "", <<>>, q)

HistoryAssistantMsg(t) == Msg("chat", "assistant", 0, "", <<>>, t)

create_text_output_item(t) == Msg("message", "assistant", 0, "", <<>>, t)

create_function_call_item(id, name, arguments) ==
    Msg("function_call", "none", id, name, arguments, "")

create_function_call_output_item(id, output) ==
    Msg("function_call_output", "none", id, "", <<>>, output)

TextDelta(t) == Msg("delta", "none", 0, "", <<>>, t)

ItemDone(item) == [type |-> "response.output_item.done", item |-> item]

DeltaEvent(t) == [type |-> "response.output_text.delta", item |-> TextDelta(t)]

Last(s) == s[Len(s)]

(* ---------------- _safe_parse_tool_arguments ---------------- *)
(* A payload is a sequence of tokens: the structural characters            *)
(* "{" "}" "[" "]" ",", the member texts "a1" ("a":1) and "a2" ("a":2),    *)
(* the key "b:" ("b": followed by a value), the number "1", a character    *)
(* "x" that starts no JSON value, and the blank " ".  "a:q" opens a string *)
(* valued member ("a":" up to the next quote "q"); whatever stands between *)
(* the two is the text of the string, braces included.  A decoded value is *)
(* written in canonical form: blanks dropped, a repeated key keeps its     *)
(* last value, members in key order.                                       *)

IsWS(c) == c = " "

RECURSIVE LStrip(_)
LStrip(s) == IF s # <<>> /\ IsWS(Head(s)) THEN LStrip(Tail(s)) ELSE s

RECURSIVE RStrip(_)
RStrip(s) ==
    IF s # <<>> /\ IsWS(s[Len(s)]) THEN RStrip(SubSeq(s, 1, Len(s) - 1)) ELSE s

strip(s) == RStrip(LStrip(s))

RECURSIVE SkipWS(_, _)
SkipWS(s, i) == IF i <= Len(s) /\ IsWS(s[i]) THEN SkipWS(s, i + 1) ELSE i

Fail == [ok |-> FALSE, val |-> <<>>, last |-> <<>>, pos |-> 0]

Ok(v, l, p) == [ok |-> TRUE, val |-> v, last |-> l, pos |-> p]

ObjCanon(a, b) ==
    <<"{">> \o a \o (IF a # <<>> /\ b # <<>> THEN <<",">> ELSE <<>>) \o b \o <<"}">>

RECURSIVE ParseValue(_, _), ParseMembers(_, _, _, _), ParseElems(_, _, _),
          ObjectBody(_, _), ArrayBody(_, _), MemberValue(_, _, _),
          AfterMember(_, _, _, _), ElemValue(_, _, _), AfterElem(_, _, _, _),
          StringMember(_, _, _, _)

\* position of the first quote "q" at or after i, 0 when there is none
RECURSIVE ClosingQuote(_, _)
ClosingQuote(s, i) ==
    IF i > Len(s) THEN 0 ELSE IF s[i] = "q" THEN i ELSE ClosingQuote(s, i + 1)

\* json decoder: one value starting at position i
ParseValue(s, i) ==
    IF i > Len(s) THEN Fail
    ELSE IF s[i] = "1" THEN Ok(<<"1">>, <<>>, i + 1)
    ELSE IF s[i] = "{" THEN ObjectBody(s, SkipWS(s, i + 1))
    ELSE IF s[i] = "[" THEN ArrayBody(s, SkipWS(s, i + 1))
    ELSE Fail

\* after "{": the empty object, or members
ObjectBody(s, j) ==
    IF j <= Len(s) /\ s[j] = "}" THEN Ok(<<"{", "}">>, <<>>, j + 1)
    ELSE ParseMembers(s, j, <<>>, <<>>)

\* after "[": the empty array, or elements
ArrayBody(s, j) ==
    IF j <= Len(s) /\ s[j] = "]" THEN Ok(<<"[", "]">>, <<>>, j + 1)
    ELSE ParseElems(s, j, <<>>)

\* json decoder: the members of an object, a and b the values decoded so far
ParseMembers(s, j, a, b) ==
    IF j > Len(s) THEN Fail
    ELSE IF s[j] \in {"a1", "a2"} THEN AfterMember(s, <<s[j]>>, b, SkipWS(s, j + 1))
    ELSE IF s[j] = "b:" THEN MemberValue(s, a, ParseValue(s, SkipWS(s, j + 1)))
    ELSE IF s[j] = "a:q" THEN StringMember(s, j, b, ClosingQuote(s, j + 1))
    ELSE Fail

\* the string valued member that opens at j and closes at k (0: it never closes)
StringMember(s, j, b, k) ==
    IF k = 0 THEN Fail ELSE AfterMember(s, SubSeq(s, j, k), b, SkipWS(s, k + 1))

\* the value v decoded for key b
MemberValue(s, a, v) ==
    IF ~v.ok THEN Fail ELSE AfterMember(s, a, <<"b:">> \o v.val, SkipWS(s, v.pos))

\* after a member: "," and more members, or "}"
AfterMember(s, a, b, k) ==
    IF k > Len(s) THEN Fail
    ELSE IF s[k] = "," THEN ParseMembers(s, SkipWS(s, k + 1), a, b)
    ELSE IF s[k] = "}" THEN Ok(ObjCanon(a, b), <<>>, k + 1)
    ELSE Fail

\* json decoder: the elements of an array, acc the elements decoded so far
ParseElems(s, j, acc) == ElemValue(s, acc, ParseValue(s, j))

\* the element v decoded
ElemValue(s, acc, v) ==
    IF ~v.ok THEN Fail
    ELSE AfterElem(s, IF acc = <<>> THEN v.val ELSE acc \o <<",">> \o v.val, v.val,
                   SkipWS(s, v.pos))

\* after an element: "," and more elements, or "]"
AfterElem(s, acc, lastv, k) ==
    IF k > Len(s) THEN Fail
    ELSE IF s[k] = "," THEN ParseElems(s, SkipWS(s, k + 1), acc)
    ELSE IF s[k] = "]" THEN Ok(<<"[">> \o acc \o <<"]">>, lastv, k + 1)
    ELSE Fail

\* the decoded value r must be followed by blanks only
WholeInput(s, r) == IF r.ok /\ SkipWS(s, r.pos) = Len(s) + 1 THEN r ELSE Fail

\* json.loads: exactly one value, blanks around it allowed
json_loads(s) == WholeInput(s, ParseValue(s, SkipWS(s, 1)))

IsDict(v) == v # <<>> /\ v[1] = "{"

IsList(v) == v # <<>> /\ v[1] = "["

\* "}{" in s
HasBoundary(s) == \E i \in 1..(Len(s) - 1) : s[i] = "}" /\ s[i + 1] = "{"

\* s.split("}{")[-1]
LastFragment(s) ==
    LET idx == {i \in 1..(Len(s) - 1) : s[i] = "}" /\ s[i + 1] = "{"} IN
    IF idx = {} THEN s
    ELSE LET i == CHOOSE x \in idx : \A y \in idx : y <= x
         IN  SubSeq(s, i + 2, Len(s))

\* s.replace("}{", "},{")
RECURSIVE ReplaceBoundary(_)
ReplaceBoundary(s) ==
    IF Len(s) < 2 THEN s
    ELSE IF s[1] = "}" /\ s[2] = "{"
        THEN <<"}", ",", "{">> \o ReplaceBoundary(SubSeq(s, 3, Len(s)))
        ELSE <<s[1]>> \o ReplaceBoundary(Tail(s))

\* the depth scan: end of the first balanced brace pair, -1 when there is none
RECURSIVE FirstBalancedEnd(_, _, _)
FirstBalancedEnd(s, i, depth) ==
    IF i > Len(s) THEN -1
    ELSE IF s[i] = "{" THEN FirstBalancedEnd(s, i + 1, depth + 1)
    ELSE IF s[i] = "}" THEN
        IF depth - 1 = 0 THEN i ELSE FirstBalancedEnd(s, i + 1, depth - 1)
    ELSE FirstBalancedEnd(s, i + 1, depth)

Returned(v) == [raised |-> FALSE, val |-> v]

JSONDecodeError == [raised |-> TRUE, val |-> <<>>]

\* return json.loads(s[:end]) of the depth scan, else raise
TryPrefix(r) == IF r.ok THEN Returned(r.val) ELSE JSONDecodeError

TryBalanced(s, end) ==
    IF end > 0 THEN TryPrefix(json_loads(SubSeq(s, 1, end))) ELSE JSONDecodeError

\* arr = json.loads("[" + s.replace("}{", "},{") + "]"); return arr[-1]
TryArray(s, r) ==
    IF r.ok /\ IsList(r.val) /\ r.val # <<"[", "]">> THEN Returned(r.last)
    ELSE TryBalanced(s, FirstBalancedEnd(s, 1, 0))

\* return json.loads("{" + s.split("}{")[-1])
TryLastObject(s, r) ==
    IF r.ok THEN Returned(r.val)
    ELSE TryArray(s, json_loads(<<"[">> \o ReplaceBoundary(s) \o <<"]">>))

\* return json.loads(s), and the except branch
TryPrimary(s, r) ==
    IF r.ok THEN Returned(r.val)
    ELSE IF HasBoundary(s) THEN TryLastObject(s, json_loads(<<"{">> \o LastFragment(s)))
    ELSE TryBalanced(s, FirstBalancedEnd(s, 1, 0))

ParseStripped(s) == TryPrimary(s, json_loads(s))

safe_parse_tool_arguments(raw_args) == ParseStripped(strip(raw_args))

\* _safe_parse_tool_arguments(raw_args) for a payload of any type: a dict is returned
\* as it is, anything that is neither a dict nor a str gives {}
safe_parse_raw(raw) ==
    IF raw.kind = "dict" THEN Returned(raw.toks)
    ELSE IF raw.kind # "str" THEN Returned(<<"{", "}">>)
    ELSE safe_parse_tool_arguments(raw.toks)

\* argument payloads the model sends with a function call
ArgPayloads ==
    { <<"{", "a1", "}">>,
      <<"{", "a1", "}", "{", "a2", "}">>,
      <<"x">>,
      <<"[", "1", "]">> }

(* ---------------- state ---------------- *)

VARIABLES
    pc,                    \* position of the turn: idle, loop, returned, maxiter, raised, closed
    entry,                 \* entry point the turn came in by
    max_iter,              \* the cap call_and_run_tools runs with
    iter,                  \* iterations of the for loop begun in this turn
    messages,              \* the message log of the turn
    current_input,         \* the request's input items
    out,                   \* events yielded by call_and_run_tools in this turn
    events,                \* events yielded by predict_stream_local in this turn
    caller_exc,            \* exception that left predict_stream, "none" if none
    err,                   \* exception raised inside the loop, "none" if none
    llm_calls,             \* model calls made in this turn
    tool_execs,            \* tool executions (exec_fn invocations) in this turn
    llm_input,             \* the messages handed to the latest model call
    last_step,             \* the kind of the latest loop step
    tool_return,           \* what the latest invoked exec_fn did: its return value, or "raise"
    conversation_history,  \* self.conversation_history
    turns,                 \* turns started so far
    current_session_id,    \* self.current_session_id
    current_user_id,       \* self.current_user_id
    uuid_count,            \* uuid4() calls made so far
    sessions_started,      \* start_new_session calls made so far
    start_arg,             \* session_id argument of the latest start_new_session
    start_ret,             \* the id the latest start_new_session returned
    returned_ids,          \* the ids start_new_session has returned so far
    session_turns,         \* the turns completed since the latest start_new_session
    req,                   \* the request being served, and the handler's session_id
    history_origin,        \* for each history message, the session it entered through
    input_origins,         \* history_origin of the history the turn's input was built from
    first_turns,           \* per session id, the latest first turn answered under it
    custom_inputs,         \* request.custom_inputs of the latest predict call
    predict_output,        \* output of the response predict returned
    custom_outputs,        \* custom_outputs of the response predict returned
    raw_args,              \* the payload handed to _safe_parse_tool_arguments
    parse_result,          \* what _safe_parse_tool_arguments did with it
    tools,                 \* the tools list the agent is constructed with
    tools_dict,            \* self._tools_dict
    init_error,            \* "pending" until __init__ runs, then what it raised
    steps,                 \* the loop steps of the turn: log length before, action, outcome
    turn_session,          \* self.current_session_id when the turn started
    trace_session,         \* mlflow.trace.session of the turn's trace, NoId if untagged
    trace_user,            \* mlflow.trace.user of the turn's trace, NoId if untagged
    start_user,            \* user_id argument of the latest start_new_session
    sse,                   \* the SSE events of the latest /analyze-stream response
    caller_history         \* the conversation_history list a caller keeps and passes in

sessVars == <<current_session_id, current_user_id, uuid_count, sessions_started,
              start_arg, start_ret, returned_ids, start_user>>

ghostVars == <<session_turns, req, history_origin, input_origins, first_turns>>

predVars == <<custom_inputs, predict_output, custom_outputs>>

parseVars == <<raw_args, parse_result>>

regVars == <<tools, tools_dict, init_error>>

traceVars == <<turn_session, trace_session, trace_user>>

clientVars == <<sse, caller_history>>

vars == <<pc, entry, max_iter, iter, messages, current_input, out, events,
          caller_exc, err, llm_calls, tool_execs, llm_input, last_step,
          tool_return, conversation_history, turns, sessVars, ghostVars,
          predVars, parseVars, regVars,
                   steps, traceVars, clientVars>>

EntryPoints == {"predict_stream_local", "predict_stream"}

\* Optional[str] = None
NoId == "<None>"

NotParsed == [raised |-> FALSE, val |-> <<"not parsed">>]

NoRaw == [kind |-> "none", toks |-> <<>>, chunks |-> <<>>]

\* no request is being served: the agent is called directly
NoRequest == [route |-> "direct", session_id |-> NoId, is_first_turn |-> FALSE,
              handler_session_id |-> NoId]

InitSession ==
    /\ current_session_id = NoId
    /\ current_user_id = NoId
    /\ uuid_count = 0
    /\ sessions_started = 0
    /\ start_arg = NoId
    /\ start_ret = NoId
    /\ returned_ids = {}
    /\ session_turns = <<>>
    /\ req = NoRequest
    /\ history_origin = <<>>
    /\ input_origins = <<>>
    /\ first_turns = {}
    /\ start_user = NoId
    /\ turn_session = NoId
    /\ trace_session = NoId
    /\ trace_user = NoId

InitClient ==
    /\ sse = <<>>
    /\ caller_history = <<>>

InitPredict ==
    /\ custom_inputs = "none"
    /\ predict_output = <<>>
    /\ custom_outputs = "unset"

InitParser ==
    /\ raw_args = NoRaw
    /\ parse_result = NotParsed

InitRegistry ==
    /\ tools = <<>>
    /\ tools_dict = <<>>
    /\ init_error = "pending"

InitTurn ==
    /\ pc = "idle"
    /\ entry = "predict_stream"
    /\ max_iter = 1
    /\ iter = 0
    /\ messages = <<>>
    /\ current_input = <<>>
    /\ out = <<>>
    /\ events = <<>>
    /\ caller_exc = "none"
    /\ err = "none"
    /\ llm_calls = 0
    /\ tool_execs = 0
    /\ llm_input = <<>>
    /\ last_step = "none"
    /\ tool_return = "none"
    /\ conversation_history = <<>>
    /\ turns = 0
    /\ steps = <<>>

Init == InitTurn /\ InitSession /\ InitPredict /\ InitParser /\ InitRegistry /\ InitClient

(* ---------------- predict_stream_local: event translation ---------------- *)

LocalEvent(type, content) == [type |-> type, content |-> content]

\* what predict_stream_local yields for one event of predict_stream
TranslateEvent(e) ==
    IF e.type = "response.output_item.done" THEN
        IF e.item.type = "function_call" THEN <<LocalEvent("tool_call", e.item.name)>>
        ELSE IF e.item.type = "function_call_output" THEN <<>>
        ELSE IF e.item.type = "message" THEN <<LocalEvent("token", e.item.text)>>
        ELSE <<>>
    ELSE IF e.type = "response.content_part.delta" THEN
        IF e.item.text # "" THEN <<LocalEvent("token", e.item.text)>> ELSE <<>>
    ELSE <<>>

RECURSIVE TranslateAll(_)
TranslateAll(es) ==
    IF es = <<>> THEN <<>> ELSE TranslateEvent(Head(es)) \o TranslateAll(Tail(es))

\* the events a loop step adds to the stream the caller of the entry point sees
Forward(es) == IF entry = "predict_stream_local" THEN events \o TranslateAll(es) ELSE events

(* ---------------- predict_stream: start of a turn ---------------- *)

\* the function-call ids the model has handed out in this log
CallIds(log) == {log[k].call_id : k \in {j \in 1..Len(log) : log[j].type = "function_call"}}

FreshCallId(log) == Cardinality(CallIds(log)) + 1

\* predict_stream up to the first step of call_and_run_tools, on the history hist:
\* messages = [system] + self.conversation_history + current_input
BeginTurnWith(input, cap, ep, hist) ==
    /\ turns' = turns + 1
    /\ entry' = ep
    /\ max_iter' = cap
    /\ iter' = 0
    /\ current_input' = input
    /\ messages' = <<SystemMsg>> \o hist \o input
    /\ out' = <<>>
    /\ events' = <<>>
    /\ caller_exc' = "none"
    /\ err' = "none"
    /\ llm_calls' = 0
    /\ tool_execs' = 0
    /\ llm_input' = <<>>
    /\ last_step' = "none"
    /\ tool_return' = "none"
    /\ steps' = <<>>
    /\ pc' = "loop"

\* the turn of a request whose input is the one user message q
BeginTurn(q, cap, ep, hist) == BeginTurnWith(<<UserMsg(q)>>, cap, ep, hist)

\* what the trace of the turn is tagged with: predict puts mlflow.trace.session and,
\* if self.current_user_id, mlflow.trace.user into the trace metadata; the streaming
\* entry points tag nothing
TagTrace(tagged) ==
    /\ turn_session' = current_session_id'
    /\ trace_session' = IF tagged THEN current_session_id' ELSE NoId
    /\ trace_user' = IF tagged /\ current_user_id' # NoId /\ current_user_id' # ""
                     THEN current_user_id' ELSE NoId

StartTurn(q, cap, ep) ==
    /\ pc \in {"idle", "closed"}
    /\ turns < MaxTurns
    /\ BeginTurn(q, cap, ep, conversation_history)
    /\ input_origins' = history_origin
    /\ UNCHANGED <<conversation_history, sessVars, session_turns, req, history_origin,
                   first_turns, predVars, parseVars, regVars, clientVars>>
    /\ TagTrace(FALSE)

(* ---------------- call_and_run_tools ---------------- *)

\* one iteration of the loop: the log length it found, what it did, how that went,
\* and the text the model answered with
Step(action, kind, text) ==
    [before |-> Len(messages), action |-> action, kind |-> kind, text |-> text]

\* variant of InLoop: the loop runs one iteration too many (range(max_iter + 1))
InLoopOffByOne == pc = "loop" /\ iter <= max_iter

\* for _ in range(max_iter): another iteration is left
InLoop == pc = "loop" /\ iter < max_iter

\* last_msg.get("role") == "assistant": return
ReturnOnAssistant ==
    /\ InLoop
    /\ Last(messages).role = "assistant"
    /\ iter' = iter + 1
    /\ pc' = "returned"
    /\ last_step' = "return"
    /\ steps' = Append(steps, Step("return", "", ""))
    /\ UNCHANGED <<entry, max_iter, messages, current_input, out, events, caller_exc,
                   err, llm_calls, tool_execs, llm_input, conversation_history, turns, tool_return,
                   sessVars, ghostVars, predVars, parseVars, regVars,
                   traceVars, clientVars>>

\* variant of execute_tool: an unknown name is answered with a text instead of KeyError
execute_tool_soft_unknown(tool_name, args, outcome) ==
    IF tool_name \notin RegisteredTools
        THEN [raised |-> FALSE, exc |-> "none", invoked |-> FALSE, result |-> "unknown tool"]
    ELSE IF ~IsDict(args)
        THEN [raised |-> TRUE, exc |-> "TypeError", invoked |-> FALSE, result |-> ""]
    ELSE IF outcome = "raise"
        THEN [raised |-> TRUE, exc |-> "ToolException", invoked |-> TRUE, result |-> ""]
    ELSE [raised |-> FALSE, exc |-> "none", invoked |-> TRUE, result |-> outcome]

\* execute_tool: self._tools_dict[tool_name].exec_fn(**args); outcome is what
\* the tool's exec_fn does when it is invoked
execute_tool(tool_name, args, outcome) ==
    IF tool_name \notin RegisteredTools
        THEN [raised |-> TRUE, exc |-> "KeyError", invoked |-> FALSE, result |-> ""]
    ELSE IF ~IsDict(args)
        THEN [raised |-> TRUE, exc |-> "TypeError", invoked |-> FALSE, result |-> ""]
    ELSE IF outcome = "raise"
        THEN [raised |-> TRUE, exc |-> "ToolException", invoked |-> TRUE, result |-> ""]
    ELSE [raised |-> FALSE, exc |-> "none", invoked |-> TRUE, result |-> outcome]

ToolOutcomes == ToolReturns \cup {"raise"}

\* variant of handle_tool_call: the output item does not carry the call's call_id
handle_tool_call_wrong_id(tool_call, outcome) ==
    LET parsed == safe_parse_tool_arguments(tool_call.arguments)
        ex == execute_tool(tool_call.name, parsed.val, outcome)
        tool_call_output == create_function_call_output_item(0, Str(ex.result))
    IN  IF parsed.raised
            THEN [raised |-> TRUE, exc |-> "JSONDecodeError", invoked |-> FALSE,
                  append |-> <<>>, yield |-> <<>>]
        ELSE IF ex.raised
            THEN [raised |-> TRUE, exc |-> ex.exc, invoked |-> ex.invoked,
                  append |-> <<>>, yield |-> <<>>]
        ELSE [raised |-> FALSE, exc |-> "none", invoked |-> TRUE,
              append |-> <<tool_call_output>>, yield |-> <<ItemDone(tool_call_output)>>]

\* variant of handle_tool_call: an error text returned by the tool is raised
handle_tool_call_raising(tool_call, outcome) ==
    LET parsed == safe_parse_tool_arguments(tool_call.arguments)
        ex == execute_tool(tool_call.name, parsed.val, outcome)
        tool_call_output ==
            create_function_call_output_item(tool_call.call_id, Str(ex.result))
    IN  IF parsed.raised
            THEN [raised |-> TRUE, exc |-> "JSONDecodeError", invoked |-> FALSE,
                  append |-> <<>>, yield |-> <<>>]
        ELSE IF ex.raised \/ ex.result = ToolErrorText
            THEN [raised |-> TRUE, exc |-> IF ex.raised THEN ex.exc ELSE "ToolException",
                  invoked |-> ex.invoked, append |-> <<>>, yield |-> <<>>]
        ELSE [raised |-> FALSE, exc |-> "none", invoked |-> TRUE,
              append |-> <<tool_call_output>>, yield |-> <<ItemDone(tool_call_output)>>]

\* variant of handle_tool_call: arguments that do not parse are replaced by {}
handle_tool_call_empty_args(tool_call, outcome) ==
    LET parsed == safe_parse_tool_arguments(tool_call.arguments)
        args == IF parsed.raised THEN <<"{", "}">> ELSE parsed.val
        ex == execute_tool(tool_call.name, args, outcome)
        tool_call_output ==
            create_function_call_output_item(tool_call.call_id, Str(ex.result))
    IN  IF ex.raised
            THEN [raised |-> TRUE, exc |-> ex.exc, invoked |-> ex.invoked,
                  append |-> <<>>, yield |-> <<>>]
        ELSE [raised |-> FALSE, exc |-> "none", invoked |-> TRUE,
              append |-> <<tool_call_output>>, yield |-> <<ItemDone(tool_call_output)>>]

\* handle_tool_call(tool_call, messages)
handle_tool_call(tool_call, outcome) ==
    LET parsed == safe_parse_tool_arguments(tool_call.arguments)
        ex == execute_tool(tool_call.name, parsed.val, outcome)
        tool_call_output ==
            create_function_call_output_item(tool_call.call_id, Str(ex.result))
    IN  IF parsed.raised
            THEN [raised |-> TRUE, exc |-> "JSONDecodeError", invoked |-> FALSE,
                  append |-> <<>>, yield |-> <<>>]
        ELSE IF ex.raised
            THEN [raised |-> TRUE, exc |-> ex.exc, invoked |-> ex.invoked,
                  append |-> <<>>, yield |-> <<>>]
        ELSE [raised |-> FALSE, exc |-> "none", invoked |-> TRUE,
              append |-> <<tool_call_output>>, yield |-> <<ItemDone(tool_call_output)>>]

\* variant of RunTool: the output item takes the place of the call it answers
RunToolReplacing ==
    /\ InLoop
    /\ Last(messages).role # "assistant"
    /\ Last(messages).type = "function_call"
    /\ \E outcome \in ToolOutcomes :
        LET h == handle_tool_call(Last(messages), outcome) IN
        /\ iter' = iter + 1
        /\ messages' = IF h.append = <<>> THEN messages
                       ELSE SubSeq(messages, 1, Len(messages) - 1) \o h.append
        /\ out' = out \o h.yield
        /\ events' = Forward(h.yield)
        /\ tool_execs' = IF h.invoked THEN tool_execs + 1 ELSE tool_execs
        /\ err' = h.exc
        /\ pc' = IF h.raised THEN "raised" ELSE "loop"
        /\ last_step' = "tool"
        /\ tool_return' = IF h.invoked THEN outcome ELSE "none"
        /\ steps' = Append(steps, Step("tool", IF h.raised THEN "raised" ELSE "output", ""))
    /\ UNCHANGED <<entry, max_iter, current_input, caller_exc, llm_calls, llm_input,
                   conversation_history, turns,
                   sessVars, ghostVars, predVars, parseVars, regVars,
                   traceVars, clientVars>>

\* last_msg.get("type") == "function_call": yield self.handle_tool_call(...)
RunTool ==
    /\ InLoop
    /\ Last(messages).role # "assistant"
    /\ Last(messages).type = "function_call"
    /\ \E outcome \in ToolOutcomes :
        LET h == handle_tool_call(Last(messages), outcome) IN
        /\ iter' = iter + 1
        /\ messages' = messages \o h.append
        /\ out' = out \o h.yield
        /\ events' = Forward(h.yield)
        /\ tool_execs' = IF h.invoked THEN tool_execs + 1 ELSE tool_execs
        /\ err' = h.exc
        /\ pc' = IF h.raised THEN "raised" ELSE "loop"
        /\ last_step' = "tool"
        /\ tool_return' = IF h.invoked THEN outcome ELSE "none"
        /\ steps' = Append(steps, Step("tool", IF h.raised THEN "raised" ELSE "output", ""))
    /\ UNCHANGED <<entry, max_iter, current_input, caller_exc, llm_calls, llm_input,
                   conversation_history, turns,
                   sessVars, ghostVars, predVars, parseVars, regVars,
                   traceVars, clientVars>>

\* what one streamed completion amounts to once it is aggregated
ModelResponses ==
    [kind : {"text"}, text : ModelTexts, name : {""}, arguments : {<<>>}]
    \cup [kind : {"call", "text_call"}, text : {""}, name : RequestedNames,
          arguments : ArgPayloads]
    \cup [kind : {"nothing", "error", "error_after_text", "error_after_call"},
          text : {""}, name : {""}, arguments : {<<>>}]

AnyText == CHOOSE x \in ModelTexts : TRUE

\* variant of Aggregate: a stream that fails inside a function call hands on the
\* call as far as it was assembled instead of raising
AggregateKeepingPartial(r, log) ==
    LET textItem == create_text_output_item(IF r.kind = "text" THEN r.text ELSE AnyText)
        callItem == create_function_call_item(FreshCallId(log), r.name, r.arguments)
        partItem == create_function_call_item(FreshCallId(log),
                                              CHOOSE n \in RegisteredTools : TRUE, <<>>)
    IN  CASE r.kind = "text" ->
                [raised |-> FALSE, append |-> <<textItem>>,
                 yield |-> <<DeltaEvent(r.text), ItemDone(textItem)>>]
          [] r.kind = "call" ->
                [raised |-> FALSE, append |-> <<callItem>>, yield |-> <<ItemDone(callItem)>>]
          [] r.kind = "text_call" ->
                [raised |-> FALSE, append |-> <<textItem, callItem>>,
                 yield |-> <<DeltaEvent(AnyText), ItemDone(textItem), ItemDone(callItem)>>]
          [] r.kind = "nothing" ->
                [raised |-> FALSE, append |-> <<>>, yield |-> <<>>]
          [] r.kind = "error" ->
                [raised |-> TRUE, append |-> <<>>, yield |-> <<>>]
          [] r.kind = "error_after_text" ->
                [raised |-> TRUE, append |-> <<>>, yield |-> <<DeltaEvent(AnyText)>>]
          [] r.kind = "error_after_call" ->
                [raised |-> FALSE, append |-> <<partItem>>, yield |-> <<ItemDone(partItem)>>]

\* output_to_responses_items_stream(chunks=self.call_llm(messages), aggregator=messages):
\* the items appended to the log and the events yielded for response r; an item is
\* appended when the stream has ended, so a stream that raises appends none
Aggregate(r, log) ==
    LET textItem == create_text_output_item(IF r.kind = "text" THEN r.text ELSE AnyText)
        callItem == create_function_call_item(FreshCallId(log), r.name, r.arguments)
    IN  CASE r.kind = "text" ->
                [raised |-> FALSE, append |-> <<textItem>>,
                 yield |-> <<DeltaEvent(r.text), ItemDone(textItem)>>]
          [] r.kind = "call" ->
                [raised |-> FALSE, append |-> <<callItem>>, yield |-> <<ItemDone(callItem)>>]
          [] r.kind = "text_call" ->
                [raised |-> FALSE, append |-> <<textItem, callItem>>,
                 yield |-> <<DeltaEvent(AnyText), ItemDone(textItem), ItemDone(callItem)>>]
          [] r.kind = "nothing" ->
                [raised |-> FALSE, append |-> <<>>, yield |-> <<>>]
          [] r.kind = "error" ->
                [raised |-> TRUE, append |-> <<>>, yield |-> <<>>]
          [] r.kind = "error_after_text" ->
                [raised |-> TRUE, append |-> <<>>, yield |-> <<DeltaEvent(AnyText)>>]
          [] r.kind = "error_after_call" ->
                [raised |-> TRUE, append |-> <<>>, yield |-> <<>>]

\* else: yield from output_to_responses_items_stream(self.call_llm(messages), messages),
\* the model answering with one of the responses rs
CallModelWith(rs) ==
    /\ InLoop
    /\ Last(messages).role # "assistant"
    /\ Last(messages).type # "function_call"
    /\ \E r \in rs :
        LET a == Aggregate(r, messages) IN
        /\ iter' = iter + 1
        /\ llm_input' = messages
        /\ llm_calls' = llm_calls + 1
        /\ messages' = messages \o a.append
        /\ out' = out \o a.yield
        /\ events' = Forward(a.yield)
        /\ err' = IF a.raised THEN "StreamTransportError" ELSE "none"
        /\ pc' = IF a.raised THEN "raised" ELSE "loop"
        /\ last_step' = "model"
        /\ steps' = Append(steps, Step("model", r.kind, r.text))
    /\ UNCHANGED <<entry, max_iter, current_input, caller_exc, tool_execs,
                   conversation_history, turns, tool_return,
                   sessVars, ghostVars, predVars, parseVars, regVars,
                   traceVars, clientVars>>

CallModel == CallModelWith(ModelResponses)

\* variant of MaxIterReached: the exhausted loop raises instead of yielding
MaxIterReachedRaising ==
    /\ pc = "loop"
    /\ iter >= max_iter
    /\ err' = "MaxIterationsError"
    /\ pc' = "raised"
    /\ last_step' = "maxiter"
    /\ UNCHANGED <<entry, max_iter, iter, messages, current_input, out, events, caller_exc,
                   llm_calls, tool_execs, llm_input, conversation_history, turns,
                   tool_return, sessVars, ghostVars, predVars, parseVars, regVars,
                   steps, traceVars, clientVars>>

\* the for loop is exhausted: yield the "Max iterations reached. Stopping." item
MaxIterReached ==
    /\ pc = "loop"
    /\ iter >= max_iter
    /\ LET item == create_text_output_item(MaxIterText) IN
        /\ out' = out \o <<ItemDone(item)>>
        /\ events' = Forward(<<ItemDone(item)>>)
    /\ pc' = "maxiter"
    /\ last_step' = "maxiter"
    /\ UNCHANGED <<entry, max_iter, iter, messages, current_input, caller_exc, err,
                   llm_calls, tool_execs, llm_input, conversation_history, turns, tool_return,
                   sessVars, ghostVars, predVars, parseVars, regVars,
                   steps, traceVars, clientVars>>

(* ---------------- end of the turn ---------------- *)

\* predict_stream: the text of the last assistant message item yielded, "" if none
RECURSIVE AssistantResponse(_)
AssistantResponse(es) ==
    IF es = <<>> THEN ""
    ELSE LET e == es[Len(es)] IN
         IF /\ e.type = "response.output_item.done"
            /\ e.item.type = "message"
            /\ e.item.role = "assistant"
         THEN e.item.text
         ELSE AssistantResponse(SubSeq(es, 1, Len(es) - 1))

\* variant of SavedTurn: the assistant's answer is not saved
SavedTurnUserOnly(input, es) == input

\* predict_stream: what the turn adds to self.conversation_history
SavedTurn(input, es) ==
    input \o (IF AssistantResponse(es) # ""
              THEN <<HistoryAssistantMsg(AssistantResponse(es))>> ELSE <<>>)

\* predict: outputs, the items of the output_item.done events of the turn
RECURSIVE Outputs(_)
Outputs(es) ==
    IF es = <<>> THEN <<>>
    ELSE (IF Head(es).type = "response.output_item.done" THEN <<Head(es).item>> ELSE <<>>)
         \o Outputs(Tail(es))

NoItem == Msg("none", "", 0, "", <<>>, "")

\* predict: final_message, the first assistant message of reversed(outputs)
RECURSIVE FinalMessage(_)
FinalMessage(items) ==
    IF items = <<>> THEN NoItem
    ELSE IF Last(items).type = "message" /\ Last(items).role = "assistant" THEN Last(items)
    ELSE FinalMessage(SubSeq(items, 1, Len(items) - 1))

\* variant of PredictOutput: every item of the turn is returned
PredictOutputAll(es) == Outputs(es)

\* predict: output=[final_message] if final_message else outputs
PredictOutput(es) ==
    IF FinalMessage(Outputs(es)) # NoItem THEN <<FinalMessage(Outputs(es))>> ELSE Outputs(es)

\* the session the client of the request being served takes the turn to belong to
ClientSession ==
    IF req.route # "multi_turn" THEN current_session_id
    ELSE IF req.is_first_turn \/ req.session_id = NoId THEN req.handler_session_id
    ELSE req.session_id

\* the first turn of a session of the multi-turn endpoint, as its client was answered
AnsweredFirstTurn(saved) ==
    IF req.route = "multi_turn" /\ req.is_first_turn
    THEN {f \in first_turns : f.session_id # req.handler_session_id}
         \cup {[session_id |-> req.handler_session_id, turn |-> saved]}
    ELSE first_turns

\* an SSE event of the /analyze-stream response
SseEvent(type) == [type |-> type]

\* _generate_with_local_agent: the SSE event sent for each event of predict_stream_local
RECURSIVE ForwardLocal(_)
ForwardLocal(es) ==
    IF es = <<>> THEN <<>>
    ELSE (IF Head(es).type \in {"token", "tool_call", "done", "error"}
          THEN <<SseEvent(Head(es).type)>> ELSE <<>>) \o ForwardLocal(Tail(es))

\* done_sent: a done event of the agent was forwarded
DoneSent(es) == \E i \in 1..Len(es) : es[i].type = "done"

\* _generate_with_local_agent(question) on the events es of predict_stream_local:
\* they are forwarded, and "if not done_sent" a final done event is sent
generate_with_local_agent(es) ==
    ForwardLocal(es) \o (IF DoneSent(es) THEN <<>> ELSE <<SseEvent("done")>>)

\* the generator of call_and_run_tools is exhausted: predict_stream saves the
\* turn, predict_stream_local yields done, predict returns its response
CloseTurn ==
    /\ pc \in {"returned", "maxiter"}
    /\ conversation_history' = conversation_history \o SavedTurn(current_input, out)
    /\ history_origin' =
         history_origin \o [i \in 1..Len(SavedTurn(current_input, out)) |-> ClientSession]
    /\ session_turns' =
         Append(session_turns, [user |-> current_input[1], terminal |-> Last(out).item])
    /\ first_turns' = AnsweredFirstTurn(SavedTurn(current_input, out))
    /\ events' = IF entry = "predict_stream_local"
                 THEN events \o <<LocalEvent("done", "")>> ELSE events
    /\ predict_output' = IF entry = "predict" THEN PredictOutput(out) ELSE predict_output
    /\ custom_outputs' = IF entry = "predict" THEN custom_inputs ELSE custom_outputs
    /\ sse' = IF req.route = "analyze_stream" THEN generate_with_local_agent(events')
              ELSE sse
    /\ pc' = "closed"
    /\ UNCHANGED <<entry, max_iter, iter, messages, current_input, out, caller_exc, err,
                   llm_calls, tool_execs, llm_input, last_step, turns, tool_return,
                   sessVars, req, input_origins, custom_inputs, parseVars, regVars,
                   steps, traceVars, caller_history>>

\* variant of CloseRaised: the except branch falls through to the done event
CloseRaisedThenDone ==
    /\ pc = "raised"
    /\ events' = IF entry = "predict_stream_local"
                 THEN events \o <<LocalEvent("error", err), LocalEvent("done", "")>>
                 ELSE events
    /\ caller_exc' = IF entry = "predict_stream_local" THEN "none" ELSE err
    /\ sse' = IF req.route = "analyze_stream" THEN generate_with_local_agent(events')
              ELSE sse
    /\ pc' = "closed"
    /\ UNCHANGED <<entry, max_iter, iter, messages, current_input, out, err,
                   llm_calls, tool_execs, llm_input, last_step, conversation_history, turns, tool_return,
                   sessVars, ghostVars, predVars, parseVars, regVars,
                   steps, traceVars, caller_history>>

\* variant of CloseRaised: the request's input is saved although the turn failed
CloseRaisedSavingInput ==
    /\ pc = "raised"
    /\ events' = IF entry = "predict_stream_local"
                 THEN events \o <<LocalEvent("error", err)>> ELSE events
    /\ caller_exc' = IF entry = "predict_stream_local" THEN "none" ELSE err
    /\ sse' = IF req.route = "analyze_stream" THEN generate_with_local_agent(events')
              ELSE sse
    /\ conversation_history' = conversation_history \o current_input
    /\ pc' = "closed"
    /\ UNCHANGED <<entry, max_iter, iter, messages, current_input, out, err,
                   llm_calls, tool_execs, llm_input, last_step, turns, tool_return,
                   sessVars, ghostVars, predVars, parseVars, regVars,
                   steps, traceVars, caller_history>>

\* an exception left the loop: predict_stream_local yields error, predict_stream
\* lets it through to its caller
CloseRaised ==
    /\ pc = "raised"
    /\ events' = IF entry = "predict_stream_local"
                 THEN events \o <<LocalEvent("error", err)>> ELSE events
    /\ caller_exc' = IF entry = "predict_stream_local" THEN "none" ELSE err
    /\ sse' = IF req.route = "analyze_stream" THEN generate_with_local_agent(events')
              ELSE sse
    /\ pc' = "closed"
    /\ UNCHANGED <<entry, max_iter, iter, messages, current_input, out, err,
                   llm_calls, tool_execs, llm_input, last_step, conversation_history, turns, tool_return,
                   sessVars, ghostVars, predVars, parseVars, regVars,
                   steps, traceVars, caller_history>>

Next ==
    \/ \E q \in Questions, cap \in 1..MaxCap, ep \in EntryPoints : StartTurn(q, cap, ep)
    \/ ReturnOnAssistant
    \/ RunTool
    \/ CallModel
    \/ MaxIterReached
    \/ CloseTurn
    \/ CloseRaised

Spec == Init /\ [][Next]_vars

(* ---------------- _safe_parse_tool_arguments on its own ---------------- *)

MaxChunks == 3

\* texts of one JSON object each
ObjectChunks ==
    { <<"{", "a1", "}">>,
      <<"{", "a2", "}">>,
      <<"{", " ", "a1", ",", "a2", "}">>,
      <<"{", "b:", "{", "}", "}">>,
      <<"{", "a:q", "}", "{", "q", "}">> }

\* texts that hold no JSON object
OtherChunks == { <<"x">>, <<" ">>, <<"[", "1", "]">>, <<"1", " ">> }

Chunks == ObjectChunks \cup OtherChunks

RECURSIVE Concat(_)
Concat(cs) == IF cs = <<>> THEN <<>> ELSE Head(cs) \o Concat(Tail(cs))

StrPayload(cs) == [kind |-> "str", toks |-> Concat(cs), chunks |-> cs]

\* payloads of every type the function accepts: str, dict, and None or a number
RawPayloads ==
    {StrPayload(cs) : cs \in UNION {[1..n -> Chunks] : n \in 0..MaxChunks}}
    \cup {[kind |-> "dict", toks |-> ObjCanon(a, <<>>), chunks |-> <<>>] :
              a \in {<<>>, <<"a1">>, <<"a2">>}}
    \cup {[kind |-> "other", toks |-> <<>>, chunks |-> <<>>]}

ParserInit ==
    /\ InitTurn /\ InitSession /\ InitPredict /\ InitRegistry /\ InitClient
    /\ raw_args \in RawPayloads
    /\ parse_result = NotParsed

Parse ==
    /\ parse_result = NotParsed
    /\ raw_args # NoRaw
    /\ parse_result' = safe_parse_raw(raw_args)
    /\ UNCHANGED <<pc, entry, max_iter, iter, messages, current_input, out, events,
                   caller_exc, err, llm_calls, tool_execs, llm_input, last_step,
                   tool_return, conversation_history, turns, sessVars, ghostVars,
                   predVars, raw_args, regVars,
                   steps, traceVars, clientVars>>

ParserNext == Parse

ParserSpec == ParserInit /\ [][ParserNext]_vars

(* ---------------- sessions: start_new_session, predict ---------------- *)

MaxRequests == 2

MaxSessions == 2

\* max_iter of call_and_run_tools when predict_stream calls it (its default, scaled down)
DefaultMaxIter == 2

SessionQuestions == {"q", "q2"}

\* what the model answers in the turns of a session: a text, a call of a registered
\* tool, both, nothing, or a failure of the stream
SessionResponses ==
    {r \in ModelResponses :
        r.kind \in {"call", "text_call"} =>
            r.name \in RegisteredTools /\ r.arguments = <<"{", "a1", "}">>}

\* session ids and user ids callers bring along
CallerIds == {"A"}

UserIds == {NoId, "coach"}

CustomInputs == {"none", "ci"}

\* the truth value of an Optional[str]: None and "" are false
Truthy(x) == x \notin {NoId, ""}

\* str(uuid4()) of the n-th call: a value no other call gives
RECURSIVE Uuid(_)
Uuid(n) == IF n = 0 THEN "uuid4-" ELSE Uuid(n - 1) \o "i"

\* variant of NewSessionId: the id in use is kept when none is supplied
NewSessionIdKeeping(session_id) ==
    IF Truthy(session_id) THEN session_id
    ELSE IF current_session_id # NoId THEN current_session_id
    ELSE Uuid(uuid_count + 1)

\* session_id if session_id else str(uuid4())
NewSessionId(session_id) ==
    IF Truthy(session_id) THEN session_id ELSE Uuid(uuid_count + 1)

\* start_new_session(session_id, user_id)
start_new_session(session_id, user_id) ==
    /\ current_session_id' = NewSessionId(session_id)
    /\ uuid_count' = IF Truthy(session_id) THEN uuid_count ELSE uuid_count + 1
    /\ current_user_id' = IF Truthy(user_id) THEN user_id ELSE current_user_id
    /\ conversation_history' = <<>>
    /\ sessions_started' = sessions_started + 1
    /\ start_arg' = session_id
    /\ start_ret' = current_session_id'
    /\ start_user' = user_id
    /\ returned_ids' = returned_ids \cup {current_session_id'}
    /\ session_turns' = <<>>
    /\ history_origin' = <<>>
    /\ first_turns' = {f \in first_turns : f.session_id # current_session_id'}

\* start_new_session called on the agent directly, between two turns
StartNewSession(session_id, user_id) ==
    /\ pc \in {"idle", "closed"}
    /\ sessions_started < MaxSessions
    /\ start_new_session(session_id, user_id)
    /\ UNCHANGED <<pc, entry, max_iter, iter, messages, current_input, out, events,
                   caller_exc, err, llm_calls, tool_execs, llm_input, last_step,
                   tool_return, turns, req, input_origins, predVars, parseVars, regVars,
                   steps, traceVars, clientVars>>

\* predict: if self.current_session_id is None: self.current_session_id = str(uuid4())
AutoSession ==
    /\ current_session_id' =
         IF current_session_id = NoId THEN Uuid(uuid_count + 1) ELSE current_session_id
    /\ uuid_count' = IF current_session_id = NoId THEN uuid_count + 1 ELSE uuid_count

\* predict(request) called on the agent directly, up to the first loop step
StartPredict(q, ci) ==
    /\ pc \in {"idle", "closed"}
    /\ turns < MaxRequests
    /\ AutoSession
    /\ BeginTurn(q, DefaultMaxIter, "predict", conversation_history)
    /\ custom_inputs' = ci
    /\ predict_output' = <<>>
    /\ custom_outputs' = "unset"
    /\ input_origins' = history_origin
    /\ req' = NoRequest
    /\ UNCHANGED <<conversation_history, current_user_id, sessions_started, start_arg,
                   start_ret, returned_ids, start_user, session_turns, history_origin,
                   first_turns, parseVars, regVars, clientVars>>
    /\ TagTrace(TRUE)

\* predict_stream_local(question) called on the agent directly
StartLocal(q) ==
    /\ pc \in {"idle", "closed"}
    /\ turns < MaxRequests
    /\ BeginTurn(q, DefaultMaxIter, "predict_stream_local", conversation_history)
    /\ input_origins' = history_origin
    /\ req' = NoRequest
    /\ UNCHANGED <<conversation_history, sessVars, session_turns, history_origin,
                   first_turns, predVars, parseVars, regVars, clientVars>>
    /\ TagTrace(FALSE)

SessionNext ==
    \/ \E session_id \in {NoId, "", current_session_id} \cup CallerIds :
            StartNewSession(session_id, NoId)
    \/ \E q \in SessionQuestions, ci \in CustomInputs : StartPredict(q, ci)
    \/ \E q \in SessionQuestions : StartLocal(q)
    \/ ReturnOnAssistant
    \/ RunTool
    \/ CallModelWith(SessionResponses)
    \/ MaxIterReached
    \/ CloseTurn
    \/ CloseRaised

SessionSpec == Init /\ [][SessionNext]_vars

(* ---------------- the routes that share the one AGENT ---------------- *)

MaxRouteRequests == 3

Request(route, session_id, is_first_turn, handler_session_id) ==
    [route |-> route, session_id |-> session_id, is_first_turn |-> is_first_turn,
     handler_session_id |-> handler_session_id]

\* the ids clients of the multi-turn endpoint send: their own, and ids the endpoint
\* has answered a first turn with
KnownIds == CallerIds \cup {f.session_id : f \in first_turns}

\* POST /multi-turn, first turn: AGENT.start_new_session(session_id=request.session_id),
\* then AGENT.predict on the question
MultiTurnFirst(q, session_id) ==
    /\ start_new_session(session_id, NoId)
    /\ BeginTurn(q, DefaultMaxIter, "predict", <<>>)
    /\ req' = Request("multi_turn", session_id, TRUE, current_session_id')
    /\ input_origins' = <<>>

\* POST /multi-turn, later turn: session_id = AGENT.get_current_session_id() or
\* request.session_id, then AGENT.predict on the question
MultiTurnFollowUp(q, session_id) ==
    /\ AutoSession
    /\ BeginTurn(q, DefaultMaxIter, "predict", conversation_history)
    /\ req' = Request("multi_turn", session_id, FALSE,
                      IF Truthy(current_session_id) THEN current_session_id
                      ELSE session_id)
    /\ input_origins' = history_origin
    /\ UNCHANGED <<conversation_history, current_user_id, sessions_started, start_arg,
                   start_ret, returned_ids, start_user, session_turns, history_origin,
                   first_turns>>

\* multi_turn_conversation(request)
MultiTurnRequest(q, session_id, is_first_turn) ==
    /\ pc \in {"idle", "closed"}
    /\ turns < MaxRouteRequests
    /\ IF is_first_turn THEN MultiTurnFirst(q, session_id)
       ELSE MultiTurnFollowUp(q, session_id)
    /\ custom_inputs' = "none"
    /\ predict_output' = <<>>
    /\ custom_outputs' = "unset"
    /\ UNCHANGED <<parseVars, regVars, clientVars>>
    /\ TagTrace(TRUE)

\* POST /analyze-stream served by _generate_with_local_agent(question):
\* AGENT.start_new_session(), then AGENT.predict_stream_local(question)
AnalyzeStreamRequest(q) ==
    /\ pc \in {"idle", "closed"}
    /\ turns < MaxRouteRequests
    /\ start_new_session(NoId, NoId)
    /\ BeginTurn(q, DefaultMaxIter, "predict_stream_local", <<>>)
    /\ req' = Request("analyze_stream", NoId, FALSE, NoId)
    /\ input_origins' = <<>>
    /\ UNCHANGED <<predVars, parseVars, regVars, caller_history>>
    /\ sse' = <<>>
    /\ TagTrace(FALSE)

\* predict_fn(input) of the evaluation route: AGENT.start_new_session(), then
\* AGENT.predict({'input': input})
EvaluationPredictFn(q) ==
    /\ pc \in {"idle", "closed"}
    /\ turns < MaxRouteRequests
    /\ start_new_session(NoId, NoId)
    /\ BeginTurn(q, DefaultMaxIter, "predict", <<>>)
    /\ req' = Request("evaluation", NoId, FALSE, NoId)
    /\ input_origins' = <<>>
    /\ custom_inputs' = "none"
    /\ predict_output' = <<>>
    /\ custom_outputs' = "unset"
    /\ UNCHANGED <<parseVars, regVars, clientVars>>
    /\ TagTrace(TRUE)

RouteNext ==
    \/ \E q \in SessionQuestions, session_id \in {NoId} \cup KnownIds :
            MultiTurnRequest(q, session_id, TRUE)
    \/ \E q \in SessionQuestions, session_id \in KnownIds :
            MultiTurnRequest(q, session_id, FALSE)
    \/ \E q \in SessionQuestions : AnalyzeStreamRequest(q)
    \/ \E q \in SessionQuestions : EvaluationPredictFn(q)
    \/ ReturnOnAssistant
    \/ RunTool
    \/ CallModelWith(SessionResponses)
    \/ MaxIterReached
    \/ CloseTurn
    \/ CloseRaised

RouteSpec == Init /\ [][RouteNext]_vars

(* ---------------- the SSE responses of /analyze-stream ---------------- *)

\* the tokens an endpoint streams before it ends or fails
MaxTokens == 2

\* the values of the LLM_MODEL setting: unset, empty, the name of an endpoint
EndpointSettings == {NoId, "", "dc-endpoint"}

RECURSIVE Tokens(_)
Tokens(n) == IF n = 0 THEN <<>> ELSE <<SseEvent("token")>> \o Tokens(n - 1)

\* _generate_with_endpoint(question), the setting being dc_endpoint and the
\* endpoint streaming n tokens and then ending, or raising if fails: without the
\* setting an error event is sent and the generator returns; a stream that ends is
\* followed by done (done_sent = True); an exception is answered with an error
\* event, and "if not done_sent" a final done event is sent
generate_with_endpoint(dc_endpoint, n, fails) ==
    IF ~Truthy(dc_endpoint) THEN <<SseEvent("error")>>
    ELSE IF fails THEN Tokens(n) \o <<SseEvent("error")>> \o <<SseEvent("done")>>
    ELSE Tokens(n) \o <<SseEvent("done")>>

\* POST /analyze-stream with DC_ASSISTANT_MODE = 'endpoint': the agent is not used
AnalyzeStreamEndpoint(dc_endpoint, n, fails) ==
    /\ pc \in {"idle", "closed"}
    /\ sse' = generate_with_endpoint(dc_endpoint, n, fails)
    /\ req' = Request("analyze_stream_endpoint", NoId, FALSE, NoId)
    /\ UNCHANGED <<pc, entry, max_iter, iter, messages, current_input, out, events,
                   caller_exc, err, llm_calls, tool_execs, llm_input, last_step,
                   tool_return, conversation_history, turns, sessVars, session_turns,
                   history_origin, input_origins, first_turns, predVars, parseVars,
                   regVars, steps, traceVars, caller_history>>

\* POST /analyze-stream in local mode where mlflow.set_experiment raises after
\* AGENT.start_new_session(): the except branch sends error, then done is sent
AnalyzeStreamSetupFails ==
    /\ pc \in {"idle", "closed"}
    /\ sessions_started < MaxRouteRequests
    /\ start_new_session(NoId, NoId)
    /\ sse' = <<SseEvent("error"), SseEvent("done")>>
    /\ req' = Request("analyze_stream", NoId, FALSE, NoId)
    /\ UNCHANGED <<pc, entry, max_iter, iter, messages, current_input, out, events,
                   caller_exc, err, llm_calls, tool_execs, llm_input, last_step,
                   tool_return, turns, input_origins, predVars, parseVars,
                   regVars, steps, traceVars, caller_history>>

StreamNext ==
    \/ \E q \in SessionQuestions : AnalyzeStreamRequest(q)
    \/ AnalyzeStreamSetupFails
    \/ \E dc_endpoint \in EndpointSettings, n \in 0..MaxTokens, fails \in BOOLEAN :
            AnalyzeStreamEndpoint(dc_endpoint, n, fails)
    \/ ReturnOnAssistant
    \/ RunTool
    \/ CallModelWith(SessionResponses)
    \/ MaxIterReached
    \/ CloseTurn
    \/ CloseRaised

StreamSpec == Init /\ [][StreamNext]_vars

(* ---------------- streaming turns that overlap with other requests ---------------- *)

\* while the streaming turn of /analyze-stream is suspended between two of its
\* events, another request is served up to its AGENT.start_new_session(): the
\* session id is replaced and self.conversation_history is bound to a new list
OverlappingStart ==
    /\ pc \in {"loop", "returned", "maxiter", "raised"}
    /\ entry = "predict_stream_local"
    /\ sessions_started < MaxRouteRequests
    /\ start_new_session(NoId, NoId)
    /\ UNCHANGED <<pc, entry, max_iter, iter, messages, current_input, out, events,
                   caller_exc, err, llm_calls, tool_execs, llm_input, last_step,
                   tool_return, turns, req, input_origins, predVars, parseVars,
                   regVars, steps, traceVars, clientVars>>

OverlapNext ==
    \/ \E q \in SessionQuestions : AnalyzeStreamRequest(q)
    \/ OverlappingStart
    \/ ReturnOnAssistant
    \/ RunTool
    \/ CallModelWith(SessionResponses)
    \/ MaxIterReached
    \/ CloseTurn
    \/ CloseRaised

OverlapSpec == Init /\ [][OverlapNext]_vars

(* ---------------- predict_stream_local with a history passed in ---------------- *)

\* what the caller collects from a turn: the contents of its token events, in order
RECURSIVE CallerResponse(_)
CallerResponse(es) ==
    IF es = <<>> THEN ""
    ELSE (IF Head(es).type = "token" THEN Head(es).content ELSE "")
         \o CallerResponse(Tail(es))

\* the caller's list when it asks q: the list so far, the assistant message it made
\* of the previous turn's tokens, and the new question
Accumulated(q) ==
    caller_history
    \o (IF caller_history # <<>> THEN <<HistoryAssistantMsg(CallerResponse(events))>>
        ELSE <<>>)
    \o <<UserMsg(q)>>

\* predict_stream_local(question, conversation_history=conversation_history), the
\* caller having appended the question to its list: the whole list is the input
StartLocalWithHistory(q) ==
    /\ pc \in {"idle", "closed"}
    /\ turns < MaxRequests
    /\ caller_history' = Accumulated(q)
    /\ BeginTurnWith(Accumulated(q), DefaultMaxIter, "predict_stream_local",
                     conversation_history)
    /\ input_origins' = history_origin
    /\ req' = NoRequest
    /\ UNCHANGED <<conversation_history, sessVars, session_turns, history_origin,
                   first_turns, predVars, parseVars, regVars, sse>>
    /\ TagTrace(FALSE)

HistoryNext ==
    \/ \E q \in SessionQuestions : StartLocalWithHistory(q)
    \/ ReturnOnAssistant
    \/ RunTool
    \/ CallModelWith(SessionResponses)
    \/ MaxIterReached
    \/ CloseTurn
    \/ CloseRaised

HistorySpec == Init /\ [][HistoryNext]_vars

(* ---------------- sessions with and without a user ---------------- *)

\* start_new_session and predict called on the agent one after another, sessions
\* being started with and without a user_id
UserNext ==
    \/ \E session_id \in {NoId} \cup CallerIds, user_id \in UserIds \cup {""} :
            StartNewSession(session_id, user_id)
    \/ \E q \in SessionQuestions : StartPredict(q, "none")
    \/ ReturnOnAssistant
    \/ RunTool
    \/ CallModelWith(SessionResponses)
    \/ MaxIterReached
    \/ CloseTurn
    \/ CloseRaised

UserSpec == Init /\ [][UserNext]_vars

(* ---------------- ToolCallingAgent.__init__ on its own ---------------- *)

MaxTools == 3

ToolNames == {"lookup", "stats"}

ExecFns == {"exec_fn_1", "exec_fn_2"}

\* ToolInfo(name, spec, exec_fn); the spec plays no part in the registry
ToolInfos == [name : ToolNames, exec_fn : ExecFns]

ToolLists == UNION {[1..n -> ToolInfos] : n \in 0..MaxTools}

\* {tool.name: tool for tool in tools}: a later tool replaces an earlier one of
\* the same name
ToolsDict(ts) ==
    [n \in {ts[i].name : i \in 1..Len(ts)} |->
        ts[CHOOSE i \in 1..Len(ts) :
              /\ ts[i].name = n
              /\ \A j \in (i + 1)..Len(ts) : ts[j].name # n]]

RegistryInit ==
    /\ InitTurn /\ InitSession /\ InitPredict /\ InitParser /\ InitClient
    /\ tools \in ToolLists
    /\ tools_dict = <<>>
    /\ init_error = "pending"

\* __init__(llm_endpoint, tools)
Construct ==
    /\ init_error = "pending"
    /\ tools_dict' = ToolsDict(tools)
    /\ init_error' = "none"
    /\ UNCHANGED <<pc, entry, max_iter, iter, messages, current_input, out, events,
                   caller_exc, err, llm_calls, tool_execs, llm_input, last_step,
                   tool_return, conversation_history, turns, sessVars, ghostVars,
                   predVars, parseVars, tools, steps, traceVars, clientVars>>

RegistryNext == Construct

RegistrySpec == RegistryInit /\ [][RegistryNext]_vars


(* ======================= properties ======================= *)

\* the messages the turn has added to the log it started with
Base == Len(conversation_history) + 2

TurnIndexes == (Base + 1)..Len(messages)

CallIndexes(log) == {k \in 1..Len(log) : log[k].type = "function_call"}

OutputIndexes(log) == {k \in 1..Len(log) : log[k].type = "function_call_output"}

MaxIterItem == create_text_output_item(MaxIterText)

TerminalIndexes == {k \in 1..Len(events) : events[k].type \in {"done", "error"}}

\* the caller of the turn has been told of exception e
Delivered(e) ==
    IF entry = "predict_stream_local"
    THEN /\ events # <<>>
         /\ Last(events) = LocalEvent("error", e)
         /\ TerminalIndexes = {Len(events)}
    ELSE caller_exc = e

\* C1: with cap N a turn begins at most N loop iterations, each of them at most
\* one model call or one tool execution, every step that stays in the loop uses
\* up one iteration, and once N iterations are used the only thing left is the
\* max-iterations message; a turn that left the loop by return stands on an
\* assistant message.
C1_Bounded ==
    /\ iter <= max_iter
    /\ llm_calls + tool_execs <= iter
    /\ tool_execs <= max_iter
    /\ (pc = "returned" => Last(messages).role = "assistant")
    /\ (pc = "maxiter" => iter = max_iter /\ Last(out) = ItemDone(MaxIterItem))

C1_Step ==
    /\ (pc = "loop" /\ pc' = "loop" => iter' = iter + 1)
    /\ (pc = "loop" /\ iter >= max_iter => pc' = "maxiter")
    /\ (pc = "loop" => pc' \in {"loop", "returned", "raised", "maxiter"})

C1_Termination == []C1_Bounded /\ [][C1_Step]_vars

C1_Witness == pc = "maxiter" /\ max_iter = 4 /\ tool_execs = 2 /\ llm_calls = 2

\* the model answered every model call of this turn with a function call and no text
ModelOnlyCalled ==
    /\ \A k \in TurnIndexes : messages[k].type # "message"
    /\ Cardinality({k \in TurnIndexes : messages[k].type = "function_call"}) = llm_calls

\* C2 (as stated): a model that only ever requests a tool makes a turn with cap N
\* execute the tool exactly N times before the max-iterations message.
C2_Original ==
    (pc = "maxiter" /\ ModelOnlyCalled) =>
        (tool_execs = max_iter /\ Last(out) = ItemDone(MaxIterItem))

\* C2 (amended): such a turn, run to the cap N, has made ceil(N/2) model calls and
\* floor(N/2) tool executions when the max-iterations message is emitted.
C2_Amended ==
    (pc = "maxiter" /\ ModelOnlyCalled) =>
        /\ tool_execs = max_iter \div 2
        /\ llm_calls = (max_iter + 1) \div 2
        /\ Last(out) = ItemDone(MaxIterItem)

C2_Witness == pc = "maxiter" /\ ModelOnlyCalled /\ max_iter = 3 /\ tool_execs = 1

\* C3: in a terminal state (returned on assistant text, or cap reached) every
\* function_call of the log has a function_call_output with its call_id.
C3_NoUnresolvedCall ==
    pc \in {"returned", "maxiter"} =>
        \A k \in CallIndexes(messages) :
            \E j \in OutputIndexes(messages) : messages[j].call_id = messages[k].call_id

\* C4: every function_call_output stands right after a function_call with the same
\* call_id, and a step taken on a pending function_call appends its output or nothing.
C4_Paired ==
    \A k \in OutputIndexes(messages) :
        /\ k > 1
        /\ messages[k - 1].type = "function_call"
        /\ messages[k - 1].call_id = messages[k].call_id

C4_Step ==
    (pc = "loop" /\ Last(messages).type = "function_call" /\ messages' # messages) =>
        /\ Len(messages') = Len(messages) + 1
        /\ SubSeq(messages', 1, Len(messages)) = messages
        /\ Last(messages').type = "function_call_output"
        /\ Last(messages').call_id = Last(messages).call_id

C4_OutputFollowsCall == []C4_Paired /\ [][C4_Step]_vars

C4_Witness == Cardinality(OutputIndexes(messages)) = 2

\* C5: the max-iterations message is emitted only when the log does not end in an
\* assistant text message of the model.
C5_MaxIterOnlyWithoutText ==
    pc = "maxiter" =>
        ~(Last(messages).type = "message" /\ Last(messages).role = "assistant")

\* C6: a run of predict_stream_local has no terminal event while it runs and, once
\* it is over, exactly one (done or error), which is its last event.
C6_OneTerminalEvent ==
    entry = "predict_stream_local" =>
        /\ (pc \in {"loop", "returned", "maxiter", "raised"} => TerminalIndexes = {})
        /\ (pc = "closed" => events # <<>> /\ TerminalIndexes = {Len(events)})
        /\ (pc = "closed" => (Last(events).type = "error" <=> err # "none"))

C6_Witness ==
    /\ entry = "predict_stream_local"
    /\ pc = "closed"
    /\ Len(events) = 3
    /\ Last(events).type = "error"

\* C7: when the invoked tool returns an error string, that string is appended as
\* the function_call_output of the pending call, nothing is raised, and the next
\* loop step is a model call that is handed a log ending in that output.
C7_State ==
    (last_step = "tool" /\ tool_return = ToolErrorText) =>
        /\ pc = "loop"
        /\ err = "none"
        /\ messages[Len(messages) - 1].type = "function_call"
        /\ Last(messages) =
             create_function_call_output_item(messages[Len(messages) - 1].call_id,
                                              ToolErrorText)

C7_Step ==
    (last_step = "tool" /\ tool_return = ToolErrorText /\ iter' = iter + 1) =>
        /\ last_step' = "model"
        /\ llm_input' = messages
        /\ Last(llm_input').type = "function_call_output"
        /\ Last(llm_input').text = ToolErrorText

C7_SoftToolError == []C7_State /\ [][C7_Step]_vars

C7_Witness ==
    /\ last_step = "model"
    /\ llm_input # <<>>
    /\ Last(llm_input).type = "function_call_output"
    /\ Last(llm_input).text = ToolErrorText

\* C8: a tool step ends the turn only for an unknown tool name or for arguments
\* that cannot be used; a failure of the tool itself does not.
C8_ToolFailureIsSoft ==
    (last_step = "tool" /\ pc \in {"raised", "closed"}) =>
        err \in {"KeyError", "JSONDecodeError", "TypeError"}

Unparseable == <<"x">>

\* C9: a pending call whose arguments do not parse raises JSONDecodeError without
\* invoking the tool or appending an output; nothing more is called in the turn
\* and the caller gets the exception (predict_stream) or one error event
\* (predict_stream_local).
C9_State ==
    err = "JSONDecodeError" =>
        /\ pc \in {"raised", "closed"}
        /\ Last(messages).type = "function_call"
        /\ Last(messages).arguments = Unparseable
        /\ tool_return = "none"
        /\ (pc = "closed" => Delivered("JSONDecodeError"))

C9_Step ==
    /\ (pc = "loop" /\ iter' = iter + 1 /\ Last(messages).type = "function_call"
            /\ Last(messages).arguments = Unparseable) =>
        (/\ err' = "JSONDecodeError"
         /\ pc' = "raised"
         /\ messages' = messages
         /\ tool_execs' = tool_execs
         /\ llm_calls' = llm_calls)
    /\ (pc = "raised" /\ err = "JSONDecodeError") =>
        (/\ pc' = "closed"
         /\ messages' = messages
         /\ tool_execs' = tool_execs
         /\ llm_calls' = llm_calls)

C9_ParseErrorIsHard == []C9_State /\ [][C9_Step]_vars

C9_Witness ==
    /\ pc = "closed"
    /\ err = "JSONDecodeError"
    /\ entry = "predict_stream_local"
    /\ tool_execs = 1

\* C10: a pending call to a name that is not registered raises without invoking a
\* tool or appending an output; nothing more is called in the turn and the
\* exception reaches the caller.
C10_State ==
    err = "KeyError" =>
        /\ pc \in {"raised", "closed"}
        /\ Last(messages).type = "function_call"
        /\ Last(messages).name \notin RegisteredTools
        /\ tool_return = "none"
        /\ (pc = "closed" => Delivered("KeyError"))

C10_Step ==
    /\ (pc = "loop" /\ iter' = iter + 1 /\ Last(messages).type = "function_call"
            /\ Last(messages).name \notin RegisteredTools) =>
        (/\ err' \in {"KeyError", "JSONDecodeError"}
         /\ pc' = "raised"
         /\ messages' = messages
         /\ tool_execs' = tool_execs
         /\ llm_calls' = llm_calls)
    /\ (pc = "raised" /\ err = "KeyError") =>
        (/\ pc' = "closed"
         /\ messages' = messages
         /\ tool_execs' = tool_execs
         /\ llm_calls' = llm_calls)

C10_UnknownToolIsHard == []C10_State /\ [][C10_Step]_vars

C10_Witness ==
    /\ pc = "closed"
    /\ err = "KeyError"
    /\ entry = "predict_stream"
    /\ caller_exc = "KeyError"
    /\ tool_execs = 1

\* the items of the output_item.done events the step has yielded
YieldedItems == Outputs(SubSeq(out', Len(out) + 1, Len(out')))

\* C15: a loop step leaves every message of the log in place and only appends: the
\* log after the step is the log before it followed by the items the step produced,
\* so its last element is the item appended most recently.
C15_Step ==
    pc = "loop" =>
        /\ Len(messages') >= Len(messages)
        /\ \A k \in 1..Len(messages) : messages'[k] = messages[k]
        /\ (pc' # "maxiter" => messages' = messages \o YieldedItems)
        /\ (messages' # messages => Last(messages') = Last(YieldedItems))

C15_AppendOnly == [][C15_Step]_vars

C15_Witness ==
    /\ pc = "loop"
    /\ Len(messages) = Base + 4
    /\ Cardinality(OutputIndexes(messages)) = 2

Parsed == parse_result # NotParsed

AllObjects(cs) == \A i \in 1..Len(cs) : cs[i] \in ObjectChunks

NoObject(cs) == \A i \in 1..Len(cs) : cs[i] \in OtherChunks

\* C16: for a text made of one JSON object, or of several back to back, the parser
\* returns what the last object decodes to; for a text made of no JSON object it
\* raises.
C16_LastObjectWins ==
    (Parsed /\ raw_args.kind = "str") =>
        /\ (raw_args.chunks # <<>> /\ AllObjects(raw_args.chunks)) =>
                parse_result = Returned(json_loads(Last(raw_args.chunks)).val)
        /\ NoObject(raw_args.chunks) => parse_result.raised

\* C17: the parser returns a mapping or raises; a mapping passed in is returned as
\* it is, and a payload that is neither a mapping nor a string is not answered
\* with a mapping.
C17_MappingOrError ==
    Parsed =>
        /\ (~parse_result.raised => IsDict(parse_result.val))
        /\ (raw_args.kind = "dict" => parse_result = Returned(raw_args.toks))
        /\ (raw_args.kind = "other" => parse_result.raised)

HasDuplicate(ts) == \E i, j \in 1..Len(ts) : i # j /\ ts[i].name = ts[j].name

\* C18: constructing the agent from a tools list that names a tool twice fails with
\* a duplicate-tool error and registers nothing.
C18_DuplicateRejected ==
    (init_error # "pending" /\ HasDuplicate(tools)) =>
        /\ init_error = "DuplicateToolError"
        /\ tools_dict = <<>>

\* what a completed turn leaves in the history: its user message and its terminal
\* assistant message
TurnPair(t) == <<t.user, HistoryAssistantMsg(t.terminal.text)>>

RECURSIVE Transcript(_)
Transcript(ts) == IF ts = <<>> THEN <<>> ELSE TurnPair(Head(ts)) \o Transcript(Tail(ts))

InTurn == pc \in {"loop", "returned", "maxiter", "raised"}

\* C11: with k turns of the session completed, the history is the 2k messages
\* user, terminal assistant message of these turns in order, and every model input
\* of the turn that follows is the system prompt, this history, and the turn's
\* user message.
C11_HistoryReplayed ==
    /\ conversation_history = Transcript(session_turns)
    /\ Len(conversation_history) = 2 * Len(session_turns)
    /\ \A i \in 1..Len(conversation_history) :
          conversation_history[i].role = IF i % 2 = 1 THEN "user" ELSE "assistant"
    /\ (InTurn /\ llm_calls > 0) =>
          SubSeq(llm_input, 1, Base) =
              <<SystemMsg>> \o Transcript(session_turns) \o current_input

C11_Witness ==
    /\ pc = "closed"
    /\ Len(session_turns) = 2
    /\ session_turns[1].user # session_turns[2].user
    /\ session_turns[1].terminal # session_turns[2].terminal
    /\ Len(llm_input) >= 4
    /\ llm_input[2] = session_turns[1].user

\* a call of start_new_session has returned in this step
StartReturned == sessions_started' = sessions_started + 1

\* C12 as stated: after start_new_session the history is empty and the current id
\* is the returned id; an id the caller supplied is returned verbatim, and with
\* none supplied the returned id differs from every id returned before.
C12_OriginalStep ==
    StartReturned =>
        /\ conversation_history' = <<>>
        /\ current_session_id' = start_ret'
        /\ (start_arg' # NoId => start_ret' = start_arg')
        /\ (start_arg' = NoId => start_ret' \notin returned_ids)

C12_Original == [][C12_OriginalStep]_vars

\* C12 amended: the same, with the empty string counting as no id supplied.
C12_AmendedStep ==
    StartReturned =>
        /\ conversation_history' = <<>>
        /\ current_session_id' = start_ret'
        /\ (Truthy(start_arg') => start_ret' = start_arg')
        /\ (~Truthy(start_arg') =>
                start_ret' \notin returned_ids \cup {current_session_id, NoId, ""})

C12_Amended == [][C12_AmendedStep]_vars

C12_Witness ==
    /\ sessions_started = 2
    /\ turns = 1
    /\ pc = "closed"
    /\ err = "none"
    /\ start_arg = "A"
    /\ returned_ids = {"A"}
    /\ current_session_id = "A"
    /\ conversation_history = <<>>

AssistantIndexes(items) ==
    {k \in 1..Len(items) : items[k].type = "message" /\ items[k].role = "assistant"}

Max(S) == CHOOSE x \in S : \A y \in S : y <= x

PredictReturned == entry = "predict" /\ pc = "closed" /\ caller_exc = "none"

\* C19: when predict returns and the turn emitted an assistant message, its output
\* is that one item, the last assistant message emitted, and its custom_outputs
\* are the request's custom_inputs.
C19_PredictReturnsFinal ==
    PredictReturned =>
        /\ custom_outputs = custom_inputs
        /\ AssistantIndexes(Outputs(out)) # {} =>
              predict_output = <<Outputs(out)[Max(AssistantIndexes(Outputs(out)))]>>

C19_Witness ==
    /\ PredictReturned
    /\ custom_inputs = "ci"
    /\ custom_outputs = "ci"
    /\ Len(Outputs(out)) = 4
    /\ Cardinality(AssistantIndexes(Outputs(out))) = 2
    /\ Len(predict_output) = 1

\* C20: a turn that ran into the iteration cap ends without an error: the local
\* stream ends with the token "Max iterations reached. Stopping." and done, and
\* predict returns that message as its output.
C20_CapIsNotFailure ==
    (pc = "closed" /\ last_step = "maxiter") =>
        /\ err = "none"
        /\ caller_exc = "none"
        /\ entry = "predict_stream_local" =>
              /\ Len(events) >= 2
              /\ events[Len(events) - 1] = LocalEvent("token", MaxIterText)
              /\ Last(events) = LocalEvent("done", "")
              /\ \A k \in 1..Len(events) : events[k].type # "error"
        /\ entry = "predict" => predict_output = <<MaxIterItem>>

C20_Witness ==
    /\ pc = "closed"
    /\ last_step = "maxiter"
    /\ entry = "predict_stream_local"
    /\ tool_execs = 1
    /\ Last(events) = LocalEvent("done", "")

\* a request of the multi-turn endpoint is being served or has just been served
MultiTurnServed == req.route = "multi_turn" /\ pc # "idle"

\* C13: the history a multi-turn request's model input is built from holds only
\* messages that entered the history through turns of the request's own session.
C13_SessionIsolation ==
    MultiTurnServed =>
        \A i \in 1..Len(input_origins) : input_origins[i] = ClientSession

\* the messages of turn t stand next to each other in the history part of the log
InModelInput(t) ==
    \E i \in 2..(Base - 2) : SubSeq(messages, i, i + Len(t) - 1) = t

\* C14: a later turn sent with the session id a first turn was answered with is
\* answered with that same id and has the first turn's messages in its model input.
C14_FollowUpResumes ==
    (req.route = "multi_turn" /\ ~req.is_first_turn /\ InTurn) =>
        \A f \in first_turns :
            f.session_id = req.session_id =>
                /\ req.handler_session_id = req.session_id
                /\ InModelInput(f.turn)

(* ---------------- one tool call, then the answer ---------------- *)

ModelSteps == {i \in 1..Len(steps) : steps[i].action = "model"}

ToolSteps == {i \in 1..Len(steps) : steps[i].action = "tool"}

\* the model of the scenario: it requests the registered tool when first asked and
\* answers with a text once the tool result is in the log; the tool gives a result
ToolThenText ==
    /\ steps # <<>>
    /\ steps[1].before = 2
    /\ \A i \in ModelSteps : steps[i].kind = (IF i = 1 THEN "call" ELSE "text")
    /\ \A i \in ToolSteps : steps[i].kind = "output"
    /\ out # <<>> => out[1].item.name \in RegisteredTools

\* the turn ran to its end without an exception, under a cap that leaves the
\* four iterations of the scenario (max_iter is 20 in the program)
ScenarioCompleted == pc = "closed" /\ err = "none" /\ max_iter >= 4 /\ ToolThenText

\* C21: in a first turn with one registered tool, where the model first requests
\* that tool and answers with a text after the tool result, the turn makes exactly
\* two model calls and one tool execution, its final output is the model's text,
\* and the log after the system prompt is user, function_call,
\* function_call_output, assistant
C21_ToolThenText ==
    ScenarioCompleted =>
        /\ llm_calls = 2
        /\ tool_execs = 1
        /\ Cardinality(RegisteredTools) = 1
        /\ Len(messages) = 5
        /\ messages[2] = current_input[1] /\ messages[2].role = "user"
        /\ messages[3].type = "function_call"
        /\ messages[4].type = "function_call_output"
        /\ messages[4].call_id = messages[3].call_id
        /\ messages[5].type = "message" /\ messages[5].role = "assistant"
        /\ messages[5].text = steps[3].text
        /\ Last(out) = ItemDone(messages[5])
        /\ AssistantResponse(out) = steps[3].text

C21_Witness == ScenarioCompleted /\ entry = "predict_stream_local"

(* ---------------- resuming the loop from its log ---------------- *)

\* what an iteration of call_and_run_tools does on a log whose last message is m
NextActionOf(m) ==
    IF m.role = "assistant" THEN "return"
    ELSE IF m.type = "function_call" THEN "tool"
    ELSE "model"

\* the first step the uninterrupted run took once the log had reached length n
FirstStepFrom(n) ==
    {i \in 1..Len(steps) : steps[i].before >= n /\ \A j \in 1..(i - 1) : steps[j].before < n}

\* C22: what the loop does next is determined by the last message of the log alone
\* (an assistant message stops it, a pending function_call runs the tool, anything
\* else calls the model), so the loop restarted on any prefix of the log a turn
\* produced begins with the step the uninterrupted run took after that prefix
C22_ResumableFromAnyPrefix ==
    InTurn \/ pc = "closed" =>
        /\ \A i \in 1..Len(steps) :
                steps[i].action = NextActionOf(messages[steps[i].before])
        /\ \A n \in Base..Len(messages) : \A i \in FirstStepFrom(n) :
                steps[i].action = NextActionOf(messages[n])

(* ---------------- tools run on completed calls only ---------------- *)

\* the completions whose stream ended and that hold a function call
CompletedCalls == {"call", "text_call"}

\* the completions whose stream raised before it ended
CutOff == {"error", "error_after_text", "error_after_call"}

\* the latest step was a model call whose stream ended, and the function_call it
\* assembled is the last message of the log
CallAssembled ==
    /\ steps # <<>>
    /\ Last(steps).action = "model"
    /\ Last(steps).kind \in CompletedCalls
    /\ Len(messages) > Last(steps).before
    /\ Last(messages).type = "function_call"
    /\ Last(out) = ItemDone(Last(messages))

C23_Step ==
    tool_execs' = tool_execs + 1 =>
        /\ pc = "loop"
        /\ CallAssembled
        /\ Last(steps').action = "tool"
        /\ SubSeq(messages', 1, Len(messages)) = messages

C23_State ==
    \A i \in 1..Len(steps) :
        steps[i].kind \in CutOff =>
            /\ i = Len(steps)
            /\ pc \in {"raised", "closed"}
            /\ Len(messages) = steps[i].before

\* C23: a tool is executed only in a step that follows a model step whose stream
\* has ended and whose assembled function_call is the last message of the log;
\* after a stream that was cut off by an error nothing is appended and no further
\* step, hence no tool execution, takes place in the turn
C23_DispatchAfterStream == []C23_State /\ [][C23_Step]_vars

C23_Witness ==
    /\ tool_execs = 1
    /\ Last(steps).action = "tool"
    /\ steps[Len(steps) - 1].kind = "text_call"

(* ---------------- what a model step appends ---------------- *)

C24_Step ==
    llm_calls' = llm_calls + 1 /\ pc' # "raised" =>
        /\ Len(messages') = Len(messages) + 1
        /\ SubSeq(messages', 1, Len(messages)) = messages
        /\ Last(messages').type \in {"message", "function_call"}

\* C24: every model step whose stream ends appends exactly one message to the log,
\* an assistant text message or a function_call message, never none and never two
C24_OneMessagePerModelStep == [][C24_Step]_vars

(* ---------------- a failed turn leaves no trace in the history ---------------- *)

\* the turn failed with an exception raised inside the loop
TurnFailed == pc = "raised" \/ (pc = "closed" /\ err # "none")

\* the log of the turn still begins with the system prompt, the history as it is
\* now, and the request's input: the history is the one the turn started from
HistoryAsAtStart ==
    /\ Len(messages) >= Len(conversation_history) + 1 + Len(current_input)
    /\ SubSeq(messages, 1, Len(conversation_history) + 1 + Len(current_input)) =
            <<SystemMsg>> \o conversation_history \o current_input

C26_Step == TurnFailed \/ TurnFailed' => conversation_history' = conversation_history

\* C26: when an exception leaves the loop (arguments that do not parse, a tool that
\* is not registered, a completion stream that fails), the conversation history
\* stays what it was when the turn started: no step up to the failure and no step
\* after it records the user message or any output of the turn
C26_FailedTurnNotRecorded == [](TurnFailed => HistoryAsAtStart) /\ [][C26_Step]_vars

C26_Witness ==
    /\ pc = "closed"
    /\ err = "StreamTransportError"
    /\ out # <<>>
    /\ conversation_history # <<>>

(* ---------------- the terminal event of an SSE response ---------------- *)

DoneIndexes == {i \in 1..Len(sse) : sse[i].type = "done"}

\* the response to the request being served has been sent to its end
ResponseSent ==
    \/ req.route = "analyze_stream_endpoint"
    \/ req.route = "analyze_stream" /\ sse # <<>>

\* C25: every response of /analyze-stream, in local mode and in endpoint mode, also
\* when the turn fails, holds exactly one done event, and it is the last event
C25_OneDoneLast ==
    ResponseSent =>
        /\ Cardinality(DoneIndexes) = 1
        /\ sse # <<>>
        /\ Last(sse).type = "done"

(* ---------------- whose history a turn is saved into ---------------- *)

\* the step in which predict_stream extends self.conversation_history
TurnSaved == pc \in {"returned", "maxiter"} /\ pc' = "closed"

C27_Step ==
    TurnSaved =>
        /\ current_session_id = turn_session
        /\ conversation_history' = conversation_history \o SavedTurn(current_input, out)
        /\ SubSeq(messages, 2, Len(conversation_history) + 1) = conversation_history

\* C27: when a streaming turn is suspended and another request starts a session,
\* the turn still saves its user message and its reply into the history of the
\* session that was current when the turn started, never into the history of a
\* session started after the turn began
C27_SavedIntoOwnSession == [][C27_Step]_vars

(* ---------------- the model input of a caller-kept conversation ---------------- *)

Count(seq, m) == Cardinality({i \in 1..Len(seq) : seq[i] = m})

\* the conversation the turn started its log with, after the system prompt
TurnInput == SubSeq(messages, 2, Len(conversation_history) + 1 + Len(current_input))

\* C28: when the caller passes its accumulated conversation_history to
\* predict_stream_local on every turn, the model input of the turn holds every
\* message of that conversation as often as the conversation does (each earlier
\* message once) and ends with the new question
C28_EarlierMessagesOnce ==
    pc = "loop" /\ caller_history # <<>> =>
        /\ \A i \in 1..Len(caller_history) :
                Count(TurnInput, caller_history[i]) = Count(caller_history, caller_history[i])
        /\ Last(TurnInput) = Last(caller_history)
        /\ Last(TurnInput).role = "user"

(* ---------------- the session id a multi-turn response carries ---------------- *)

\* C29: the session_id in the response to a multi-turn request is a string, and it
\* is the session id the agent tagged the trace of that turn with, in any state
\* of the agent and for first and later turns
C29_ResponseSessionIsTraceSession ==
    MultiTurnServed /\ pc = "closed" /\ caller_exc = "none" =>
        /\ req.handler_session_id # NoId
        /\ req.handler_session_id = trace_session

(* ---------------- the user a trace is attributed to ---------------- *)

\* the user_id the current session was started with, none if it was started
\* without one or by predict itself
SessionUser == IF Truthy(start_user) THEN start_user ELSE NoId

\* C30: the user in the trace metadata of a turn of predict is the user_id given
\* when the turn's session was started, and none if the session was started
\* without a user_id, whatever sessions came before
C30_UserOfOwnSession ==
    InTurn /\ entry = "predict" => trace_user = SessionUser

====
